---- MODULE Spec2Model ----
(***************************************************************************)
(* mini-agenix: evaluation-time age decryption for Nix (plugin.cpp).       *)
(*                                                                         *)
(* The model follows resolveAge step by step.  A call is a record in       *)
(* calls[c]; its pc is the position in resolveAge, its log the sequence of *)
(* collaborator operations it has performed.  The Nix store is the only    *)
(* durable state.  The filesystem probes (identity files, ciphertext) and  *)
(* the outcome of the age subprocess are inputs read at the point of use:  *)
(* the plugin does not own them and they may differ between two probes.    *)
(***************************************************************************)
EXTENDS Integers, Sequences, FiniteSets, TLC

VARIABLES
    store,      \* set of valid store paths (ContentStore)
    pureEval,   \* state.settings.pureEval
    calls       \* calls[c]: the resolveAge / primop activation of caller c

vars == <<store, pureEval, calls>>

(***************************************************************************)
(* Values                                                                  *)
(***************************************************************************)

\* Callers whose activations are modelled; Spec runs the first one alone.
Callers == {1, 2}

\* std::optional<T>: <<>> is nullopt, <<x>> holds x.
Nullopt == <<>>
Some(x) == <<x>>
HasValue(o) == o /= <<>>

\* Strings that the code inspects character by character are sequences of
\* one-character strings.
DotAge == <<".", "a", "g", "e">>

\* SourcePath: the sequence of path components; <<>> is the root.
FilePlain == << <<"d">>, <<"s", ".", "a", "g", "e">> >>
FileNul == << <<"d">>, <<"t">> >>
Files == {FilePlain, FileNul}

\* Decrypted contents, as byte sequences; 0 is the NUL byte.
ContentPlain == <<1, 2>>
ContentNul == <<1, 0, 2>>
Contents == {ContentPlain, ContentNul}

\* What the ciphertext at a path decrypts to (the ciphertexts are fixed).
Plaintext(file) == IF file = FilePlain THEN ContentPlain ELSE ContentNul

HashAlgorithms == {"SHA256", "SHA512"}

Whos == {"builtins.readAge", "builtins.importAge"}

\* Identity file locations.
KeyFile == <<"tmp", "test", "key.txt">>
HomeDir == <<"root">>

\* Outcome classes of a status probe (lstat / stat) of a path.
ProbeStatus == {"ok", "ENOENT", "EPERM", "EACCES"}

(***************************************************************************)
(* Pure helpers                                                            *)
(***************************************************************************)

RECURSIVE digestFold(_, _)
digestFold(h, bytes) ==
    IF bytes = <<>> THEN h
    ELSE digestFold((2 * h + bytes[1] + 1) % 4, Tail(bytes))

\* hashString(algo, content): the digest of the bytes, tagged with algo.
hashString(algo, content) == [algo |-> algo, hash |-> digestFold(0, content)]

Base64Chars == <<"A", "B">>

printHashAlgo(algo) == IF algo = "SHA256" THEN "sha256" ELSE "sha512"

\* Hash::to_string(HashFormat::SRI, true): "<algo>-<base64 of the digest>".
to_string_SRI(h) ==
    <<printHashAlgo(h.algo), "-",
      Base64Chars[(h.hash \div 2) + 1], Base64Chars[(h.hash % 2) + 1]>>

base64Index(ch) == IF ch = "A" THEN 0 ELSE IF ch = "B" THEN 1 ELSE -1

\* Hash::parseAny(s, SHA256) as reached from newHashAllowEmpty on a
\* non-empty string: [ok, hash].
BadHash == [ok |-> FALSE, hash |-> Nullopt]
parseDigest(algo, rest) ==
    IF Len(rest) = 2 /\ base64Index(rest[1]) >= 0 /\ base64Index(rest[2]) >= 0
    THEN [ok |-> TRUE,
          hash |-> Some([algo |-> algo,
                         hash |-> 2 * base64Index(rest[1]) + base64Index(rest[2])])]
    ELSE BadHash
newHashAllowEmpty(s, algo) ==
    IF Len(s) >= 2 /\ s[2] = "-"
    THEN IF s[1] = printHashAlgo(algo)
         THEN parseDigest(algo, SubSeq(s, 3, Len(s)))
         ELSE BadHash
    ELSE parseDigest(algo, s)

RECURSIVE stripAgeSuffix_repeated(_)
\* Mutant: every trailing ".age" is removed, not only the last one.
stripAgeSuffix_repeated(name) ==
    IF Len(name) >= 4 /\ SubSeq(name, Len(name) - 3, Len(name)) = DotAge
    THEN stripAgeSuffix_repeated(SubSeq(name, 1, Len(name) - 4))
    ELSE name

stripAgeSuffix(name) ==
    IF Len(name) >= 4 /\ SubSeq(name, Len(name) - 3, Len(name)) = DotAge
    THEN SubSeq(name, 1, Len(name) - 4)
    ELSE name

\* CanonPath::baseName(): nullopt for the root.
baseName(file) == IF file = <<>> THEN Nullopt ELSE Some(file[Len(file)])

value_or(o, d) == IF HasValue(o) THEN o[1] ELSE d

\* resolveAge lines 90-91.
derivedName(file) == stripAgeSuffix(value_or(baseName(file), <<"s", "o", "u", "r", "c", "e">>))

\* StorePath's check of a name, as far as derived names can fail it: the
\* name must not be empty.  A failed check throws BadStorePathName.
checkName(name) == name /= <<>>

\* Store::makeFixedOutputPath(name, FixedOutputInfo{method, hash, {}}): the
\* path is a function of exactly these.
makeFixedOutputPath(name, method, hash) ==
    [name |-> name, method |-> method, hash |-> hash]

\* Mutant: the dump is ingested as a NAR instead of a flat file.
addToStoreFromDumpPath_NixArchive(name, content) ==
    makeFixedOutputPath(name, "NixArchive", hashString("SHA256", content))

\* The path addToStoreFromDump(source, name, Flat, Flat, SHA256) writes.
addToStoreFromDumpPath(name, content) ==
    makeFixedOutputPath(name, "Flat", hashString("SHA256", content))

(***************************************************************************)
(* Errors                                                                  *)
(***************************************************************************)

\* An error thrown out of a call.  kind names the error of the taxonomy;
\* the other fields are the parts of the rendered message.
NoError ==
    [kind |-> "none", who |-> "", file |-> <<>>, detail |-> <<>>,
     noHome |-> FALSE, hashNote |-> FALSE, what |-> <<>>,
     specified |-> <<>>, got |-> <<>>]

\* "%s only supports SHA-256 hashes" (line 95)
UnsupportedHashAlgorithm(who) ==
    [NoError EXCEPT !.kind = "UnsupportedHashAlgorithm", !.who = who]

\* "%s requires 'hash' in pure evaluation mode. ..." (lines 115-122)
PurityViolation(who) ==
    [NoError EXCEPT !.kind = "PurityViolation", !.who = who]

\* "%s: no usable identity found. %s. ..." plus the hash-lock note (lines
\* 128-151).  detail lists the described candidates; noHome stands for "no
\* candidate paths (could not determine home directory)".
NoUsableIdentity(who, candidates, detail, expectedHash) ==
    [NoError EXCEPT !.kind = "NoUsableIdentity", !.who = who,
                    !.noHome = (candidates = <<>>),
                    !.detail = IF candidates = <<>> THEN <<>> ELSE detail,
                    !.hashNote = HasValue(expectedHash)]

\* "%s: file '%s' does not exist. If you are using flakes, ..." (157-164)
SourceNotFound(who, file) ==
    [NoError EXCEPT !.kind = "SourceNotFound", !.who = who, !.file = file]

\* "%s: age failed to decrypt '%s': %s" with e.what() (lines 170-177)
DecryptionFailed(who, file, what) ==
    [NoError EXCEPT !.kind = "DecryptionFailed", !.who = who, !.file = file,
                    !.what = what]

\* Mutant: the message prints the expected hash on both lines.
HashMismatch_expectedTwice(who, file, expected, actual) ==
    [NoError EXCEPT !.kind = "HashMismatch", !.who = who, !.file = file,
                    !.specified = to_string_SRI(expected),
                    !.got = to_string_SRI(expected)]

\* "%s: hash mismatch for '%s'.\n  specified: %s\n  got: %s ..." (183-194)
HashMismatch(who, file, expected, actual) ==
    [NoError EXCEPT !.kind = "HashMismatch", !.who = who, !.file = file,
                    !.specified = to_string_SRI(expected),
                    !.got = to_string_SRI(actual)]

\* An exception of a collaborator that resolveAge does not catch.
Uncaught(kind) == [NoError EXCEPT !.kind = kind]

(***************************************************************************)
(* Calls                                                                   *)
(***************************************************************************)

IdleCall ==
    [pc |-> "idle", who |-> "", file |-> <<>>, hash |-> Nullopt,
     name |-> <<>>, expectedPath |-> Nullopt, cache |-> "none",
     env |-> Nullopt, candidates |-> <<>>, probed |-> <<>>, usable |-> <<>>,
     args |-> Nullopt, content |-> Nullopt, toolDiag |-> "",
     result |-> Nullopt, value |-> Nullopt,
     err |-> NoError, warned |-> Nullopt, log |-> <<>>, prev |-> Nullopt]

Throw(call, e) == [call EXCEPT !.pc = "failed", !.err = e]

Active(call) == call.pc /= "idle"

Did(call, op) == \E i \in 1..Len(call.log) : call.log[i] = op

(***************************************************************************)
(* Identity discovery (discoverIdentities, describeCandidate)              *)
(***************************************************************************)

\* getEnv("AGE_IDENTITY_FILE") and getHome(): nullopt when unset / when
\* getHome throws.
EnvValues == {Nullopt, Some(KeyFile)}
HomeValues == {Nullopt, Some(HomeDir)}

\* Mutant: the override is put in front of the defaults instead of
\* replacing them.
candidatesOf_extend(env, home) ==
    (IF HasValue(env) THEN <<env[1]>> ELSE <<>>)
    \o (IF HasValue(home)
        THEN <<home[1] \o <<".ssh", "id_ed25519">>,
               home[1] \o <<".ssh", "id_rsa">>>>
        ELSE <<>>)

\* Lines 30-39: the candidate list.
candidatesOf(env, home) ==
    IF HasValue(env) THEN <<env[1]>>
    ELSE IF HasValue(home)
         THEN <<home[1] \o <<".ssh", "id_ed25519">>,
                home[1] \o <<".ssh", "id_rsa">>>>
         ELSE <<>>

\* pathAccessible(p) on a path whose lstat ends in status st: pathExists,
\* with EPERM swallowed; any other error propagates.
pathAccessible(st) ==
    IF st = "ok" THEN "true"
    ELSE IF st \in {"ENOENT", "EPERM"} THEN "false"
    ELSE "throw"

\* std::filesystem::exists(p): false when there is no such file, an
\* exception on any other error.
fsExists(st) ==
    IF st = "ok" THEN "true"
    ELSE IF st = "ENOENT" THEN "false"
    ELSE "throw"

RECURSIVE usableOf(_, _)
\* Lines 41-44: the candidates found accessible, in candidate order.
usableOf(candidates, st) ==
    IF candidates = <<>> THEN <<>>
    ELSE (IF pathAccessible(st[1]) = "true" THEN <<candidates[1]>> ELSE <<>>)
         \o usableOf(Tail(candidates), Tail(st))

probeThrows(st) == \E i \in 1..Len(st) : pathAccessible(st[i]) = "throw"

\* The probe at which the loop of lines 41-44 is left by the exception.
firstThrow(st) ==
    CHOOSE i \in 1..Len(st) :
        /\ pathAccessible(st[i]) = "throw"
        /\ \A j \in 1..(i - 1) : pathAccessible(st[j]) /= "throw"

\* describeCandidate(p): stE is what the exists() probe meets, stA what the
\* pathAccessible() probe after it meets.
describeCandidate(stE, stA) ==
    IF fsExists(stE) = "throw" THEN "inaccessible"
    ELSE IF fsExists(stE) = "false" THEN "not found"
    ELSE IF pathAccessible(stA) = "throw" THEN "inaccessible"
    ELSE IF pathAccessible(stA) = "false" THEN "not readable"
    ELSE "found"

\* Mutant: the loop over the candidates stops after the first one.
detailOf_firstOnly(candidates, stE, stA) ==
    [i \in 1..(IF candidates = <<>> THEN 0 ELSE 1) |->
        [path |-> candidates[i], status |-> describeCandidate(stE[i], stA[i])]]

\* Lines 132-137: "checked: " and the described candidates, in order.
detailOf(candidates, stE, stA) ==
    [i \in 1..Len(candidates) |->
        [path |-> candidates[i], status |-> describeCandidate(stE[i], stA[i])]]

(***************************************************************************)
(* The Decryptor (decryptWithAge -> runProgram(AGE_PATH, false, args))     *)
(***************************************************************************)

\* What the age process prints on its own stderr when it fails.
ToolDiagnostics == {"age: error: no identity matched any of the recipients"}

\* ExecError::what() as runProgram builds it: the program and its exit
\* status.
ExecErrorWhat == <<"program", "age", "failed with exit code 1">>

\* args of decryptWithAge (lines 51-56).
ageArgs(encryptedPath, identities) ==
    [flag |-> "--decrypt", identities |-> identities, file |-> encryptedPath]

(***************************************************************************)
(* Init                                                                    *)
(***************************************************************************)

Init ==
    /\ store = {}
    /\ pureEval = FALSE
    /\ calls = [c \in Callers |-> IdleCall]

(***************************************************************************)
(* resolveAge                                                              *)
(***************************************************************************)

\* Hashes a caller may pass: the digests of the two contents, a digest of
\* no known content, and one of another algorithm.
OfferedHashes ==
    {[algo |-> "SHA256", hash |-> 0], [algo |-> "SHA256", hash |-> 1],
     [algo |-> "SHA256", hash |-> 3], [algo |-> "SHA512", hash |-> 3]}
ExpectedHashes == {Nullopt} \cup {Some(h) : h \in OfferedHashes}

\* Mutant: no purity gate.
resolveAgeEnter_noGate(who, file, expectedHash, prev) ==
    LET name == derivedName(file)
        call == [IdleCall EXCEPT !.who = who, !.file = file,
                                 !.hash = expectedHash, !.name = name,
                                 !.prev = prev]
    IN  IF HasValue(expectedHash)
        THEN IF expectedHash[1].algo /= "SHA256"
             THEN Throw(call, UnsupportedHashAlgorithm(who))
             ELSE [call EXCEPT !.pc = "ensure",
                               !.expectedPath =
                                   Some(makeFixedOutputPath(name, "Flat", expectedHash[1]))]
        ELSE [call EXCEPT !.pc = "discover"]

\* Mutant: the purity gate comes first, whether or not a hash was given.
resolveAgeEnter_gateFirst(who, file, expectedHash, prev) ==
    LET name == derivedName(file)
        call == [IdleCall EXCEPT !.who = who, !.file = file,
                                 !.hash = expectedHash, !.name = name,
                                 !.prev = prev]
    IN  IF pureEval
        THEN Throw(call, PurityViolation(who))
        ELSE IF HasValue(expectedHash)
        THEN IF expectedHash[1].algo /= "SHA256"
             THEN Throw(call, UnsupportedHashAlgorithm(who))
             ELSE [call EXCEPT !.pc = "ensure",
                               !.expectedPath =
                                   Some(makeFixedOutputPath(name, "Flat", expectedHash[1]))]
        ELSE [call EXCEPT !.pc = "discover"]

\* Mutant: the expected path is computed from the base name as it is, with
\* the ".age" suffix still on it.
resolveAgeEnter_unstripped(who, file, expectedHash, prev) ==
    LET name == derivedName(file)
        call == [IdleCall EXCEPT !.who = who, !.file = file,
                                 !.hash = expectedHash, !.name = name,
                                 !.prev = prev]
    IN  IF HasValue(expectedHash)
        THEN IF expectedHash[1].algo /= "SHA256"
             THEN Throw(call, UnsupportedHashAlgorithm(who))
             ELSE [call EXCEPT !.pc = "ensure",
                               !.expectedPath =
                                   Some(makeFixedOutputPath(
                                       value_or(baseName(file), <<"s", "o", "u", "r", "c", "e">>),
                                       "Flat", expectedHash[1]))]
        ELSE IF pureEval
             THEN Throw(call, PurityViolation(who))
             ELSE [call EXCEPT !.pc = "discover"]

\* Mutant: no check of the algorithm of the expected hash.
resolveAgeEnter_anyAlgorithm(who, file, expectedHash, prev) ==
    LET name == derivedName(file)
        call == [IdleCall EXCEPT !.who = who, !.file = file,
                                 !.hash = expectedHash, !.name = name,
                                 !.prev = prev]
    IN  IF HasValue(expectedHash)
        THEN [call EXCEPT !.pc = "ensure",
                          !.expectedPath =
                              Some(makeFixedOutputPath(name, "Flat", expectedHash[1]))]
        ELSE IF pureEval
             THEN Throw(call, PurityViolation(who))
             ELSE [call EXCEPT !.pc = "discover"]

\* Lines 90-123: the name, the algorithm check, the expected path and the
\* purity gate.  The result is the activation at its next position.
resolveAgeEnter(who, file, expectedHash, prev) ==
    LET name == derivedName(file)
        call == [IdleCall EXCEPT !.who = who, !.file = file,
                                 !.hash = expectedHash, !.name = name,
                                 !.prev = prev]
    IN  IF HasValue(expectedHash)
        THEN IF expectedHash[1].algo /= "SHA256"
             THEN Throw(call, UnsupportedHashAlgorithm(who))
             ELSE IF ~checkName(name)
             THEN Throw(call, Uncaught("BadStorePathName"))
             ELSE [call EXCEPT !.pc = "ensure",
                               !.expectedPath =
                                   Some(makeFixedOutputPath(name, "Flat", expectedHash[1]))]
        ELSE IF pureEval
             THEN Throw(call, PurityViolation(who))
             ELSE [call EXCEPT !.pc = "discover"]

\* A call of resolveAge with the arguments given.
resolveAge(c, who, file, expectedHash) ==
    /\ calls[c].pc = "idle"
    /\ calls' = [calls EXCEPT ![c] = resolveAgeEnter(who, file, expectedHash, Nullopt)]
    /\ UNCHANGED <<store, pureEval>>

\* A substituter can deliver a path only if it holds content of that hash.
Substitutable(path) ==
    \E content \in Contents : hashString(path.hash.algo, content) = path.hash

\* Mutant: the return after a successful ensurePath is missing, so the
\* call goes on to decrypt.
ensurePath_noReturn(c) ==
    LET call == calls[c]
        path == call.expectedPath[1]
        logged == [call EXCEPT !.log = Append(@, "ensurePath")]
    IN  /\ call.pc = "ensure"
        /\ calls' = [calls EXCEPT ![c] =
              [logged EXCEPT !.pc = "discover",
                             !.cache = IF path \in store THEN "hit" ELSE "miss"]]
        /\ UNCHANGED <<store, pureEval>>

\* Mutant: only an absent path is a miss; a failed fetch of a path that a
\* substituter offers is rethrown.
ensurePath_fatalFetch(c) ==
    LET call == calls[c]
        path == call.expectedPath[1]
        logged == [call EXCEPT !.log = Append(@, "ensurePath")]
    IN  /\ call.pc = "ensure"
        /\ \/ /\ path \in store
              /\ calls' = [calls EXCEPT ![c] =
                    [logged EXCEPT !.pc = "returned", !.cache = "hit",
                                   !.result = Some(path)]]
              /\ UNCHANGED store
           \/ /\ path \notin store
              /\ Substitutable(path)
              /\ calls' = [calls EXCEPT ![c] =
                    [logged EXCEPT !.pc = "returned", !.cache = "substituted",
                                   !.result = Some(path)]]
              /\ store' = store \cup {path}
           \/ /\ path \notin store
              /\ calls' = [calls EXCEPT ![c] =
                    IF Substitutable(path)
                    THEN Throw(logged, Uncaught("SubstError"))
                    ELSE [logged EXCEPT !.pc = "discover", !.cache = "miss"]]
              /\ UNCHANGED store
        /\ UNCHANGED pureEval

\* Lines 108-113: ensurePath(expectedPath); any Error is a miss.
ensurePath(c) ==
    LET call == calls[c]
        path == call.expectedPath[1]
        logged == [call EXCEPT !.log = Append(@, "ensurePath")]
    IN  /\ call.pc = "ensure"
        /\ \/ /\ path \in store
              /\ calls' = [calls EXCEPT ![c] =
                    [logged EXCEPT !.pc = "returned", !.cache = "hit",
                                   !.result = Some(path)]]
              /\ UNCHANGED store
           \/ /\ path \notin store
              /\ Substitutable(path)
              /\ calls' = [calls EXCEPT ![c] =
                    [logged EXCEPT !.pc = "returned", !.cache = "substituted",
                                   !.result = Some(path)]]
              /\ store' = store \cup {path}
           \/ /\ path \notin store
              /\ calls' = [calls EXCEPT ![c] =
                    [logged EXCEPT !.pc = "discover", !.cache = "miss"]]
              /\ UNCHANGED store
        /\ UNCHANGED pureEval

\* Lines 125-152: discoverIdentities() and, when nothing is usable, the
\* NoUsableIdentity error with every candidate described by a later probe.
discoverIdentities(c) ==
    LET call == calls[c] IN
    /\ call.pc = "discover"
    /\ \E env \in EnvValues, home \in HomeValues :
         LET candidates == candidatesOf(env, home)
             Probes == [1..Len(candidates) -> ProbeStatus]
         IN  \E st \in Probes :
               LET usable == usableOf(candidates, st)
                   found == [call EXCEPT !.log = Append(@, "discoverIdentities"),
                                         !.env = env,
                                         !.candidates = candidates,
                                         !.probed = st,
                                         !.usable = usable]
               IN  IF probeThrows(st)
                   THEN calls' = [calls EXCEPT ![c] =
                            Throw([call EXCEPT !.log = Append(@, "discoverIdentities"),
                                               !.env = env,
                                               !.candidates = candidates,
                                               !.probed = SubSeq(st, 1, firstThrow(st))],
                                  Uncaught("SysError"))]
                   ELSE IF usable = <<>>
                   THEN \E stE \in Probes, stA \in Probes :
                          calls' = [calls EXCEPT ![c] =
                            Throw([found EXCEPT !.log =
                                      IF candidates = <<>> THEN @
                                      ELSE Append(@, "describeCandidate")],
                                  NoUsableIdentity(call.who, candidates,
                                      detailOf(candidates, stE, stA), call.hash))]
                   ELSE calls' = [calls EXCEPT ![c] = [found EXCEPT !.pc = "exists"]]
    /\ UNCHANGED <<store, pureEval>>

\* Lines 154-164: the ciphertext must exist.
checkSource(c) ==
    LET call == calls[c]
        logged == [call EXCEPT !.log = Append(@, "exists")]
    IN  /\ call.pc = "exists"
        /\ \E present \in BOOLEAN :
             calls' = [calls EXCEPT ![c] =
                IF present THEN [logged EXCEPT !.pc = "decrypt"]
                ELSE Throw(logged, SourceNotFound(call.who, call.file))]
        /\ UNCHANGED <<store, pureEval>>

\* How a run of the age program can end.
RunOutcomes == {"exit0", "exit1", "spawn failed"}

\* Mutant: the Decryptor is given every candidate, usable or not.
decryptWithAge_allCandidates(c) ==
    LET call == calls[c]
        logged == [call EXCEPT !.log = Append(@, "decryptWithAge"),
                               !.args = Some(ageArgs(call.file, call.candidates))]
    IN  /\ call.pc = "decrypt"
        /\ \E outcome \in RunOutcomes, diag \in ToolDiagnostics :
             calls' = [calls EXCEPT ![c] =
                IF outcome = "exit0"
                THEN [logged EXCEPT !.pc = "verify",
                                    !.content = Some(Plaintext(call.file))]
                ELSE IF outcome = "exit1"
                THEN Throw([logged EXCEPT !.toolDiag = diag],
                           DecryptionFailed(call.who, call.file, ExecErrorWhat))
                ELSE Throw(logged, Uncaught("SysError"))]
        /\ UNCHANGED <<store, pureEval>>

\* Lines 166-178: decryptWithAge; only ExecError is caught and wrapped.
decryptWithAge(c) ==
    LET call == calls[c]
        logged == [call EXCEPT !.log = Append(@, "decryptWithAge"),
                               !.args = Some(ageArgs(call.file, call.usable))]
    IN  /\ call.pc = "decrypt"
        /\ \E outcome \in RunOutcomes, diag \in ToolDiagnostics :
             calls' = [calls EXCEPT ![c] =
                IF outcome = "exit0"
                THEN [logged EXCEPT !.pc = "verify",
                                    !.content = Some(Plaintext(call.file))]
                ELSE IF outcome = "exit1"
                THEN Throw([logged EXCEPT !.toolDiag = diag],
                           DecryptionFailed(call.who, call.file, ExecErrorWhat))
                ELSE Throw(logged, Uncaught("SysError"))]
        /\ UNCHANGED <<store, pureEval>>

\* Mutant: the comparison with the expected hash is missing.
verifyHash_noCompare(c) ==
    /\ calls[c].pc = "verify"
    /\ calls' = [calls EXCEPT ![c] = [calls[c] EXCEPT !.pc = "commit"]]
    /\ UNCHANGED <<store, pureEval>>

\* Lines 180-194: hash the content and compare with the expected hash.
verifyHash(c) ==
    LET call == calls[c]
        actualHash == hashString("SHA256", call.content[1])
    IN  /\ call.pc = "verify"
        /\ calls' = [calls EXCEPT ![c] =
              IF HasValue(call.hash) /\ actualHash /= call.hash[1]
              THEN Throw(call, HashMismatch(call.who, call.file, call.hash[1], actualHash))
              ELSE [call EXCEPT !.pc = "commit"]]
        /\ UNCHANGED <<store, pureEval>>

\* Mutant: a commit to a path that is already valid is an error.
addToStoreFromDump_exclusive(c) ==
    LET call == calls[c]
        storePath == addToStoreFromDumpPath(call.name, call.content[1])
        warns == ~HasValue(call.hash)
    IN  /\ call.pc = "commit"
        /\ store' = store \cup {storePath}
        /\ calls' = [calls EXCEPT ![c] =
              IF storePath \in store
              THEN Throw(call, Uncaught("PathExists"))
              ELSE [call EXCEPT
                     !.pc = "returned",
                     !.result = Some(storePath),
                     !.warned = IF warns
                                THEN Some(to_string_SRI(hashString("SHA256", call.content[1])))
                                ELSE Nullopt,
                     !.log = IF warns
                             THEN @ \o <<"addToStoreFromDump", "warn">>
                             ELSE Append(@, "addToStoreFromDump")]]
        /\ UNCHANGED pureEval

\* Mutant: the notice after the commit is missing.
addToStoreFromDump_noWarn(c) ==
    LET call == calls[c]
        storePath == addToStoreFromDumpPath(call.name, call.content[1])
    IN  /\ call.pc = "commit"
        /\ store' = store \cup {storePath}
        /\ calls' = [calls EXCEPT ![c] =
              [call EXCEPT !.pc = "returned",
                           !.result = Some(storePath),
                           !.log = Append(@, "addToStoreFromDump")]]
        /\ UNCHANGED pureEval

\* Lines 196-213: addToStoreFromDump, the hash notice, the return.
addToStoreFromDump(c) ==
    LET call == calls[c]
        actualHash == hashString("SHA256", call.content[1])
        storePath == addToStoreFromDumpPath(call.name, call.content[1])
    IN  /\ call.pc = "commit"
        /\ IF checkName(call.name)
           THEN /\ store' = store \cup {storePath}
                /\ calls' = [calls EXCEPT ![c] =
                      [call EXCEPT !.pc = "returned",
                                   !.result = Some(storePath),
                                   !.warned = IF HasValue(call.hash) THEN Nullopt
                                              ELSE Some(to_string_SRI(actualHash)),
                                   !.log = IF HasValue(call.hash)
                                           THEN Append(@, "addToStoreFromDump")
                                           ELSE @ \o <<"addToStoreFromDump", "warn">>]]
           ELSE /\ store' = store
                /\ calls' = [calls EXCEPT ![c] =
                      Throw([call EXCEPT !.log = Append(@, "addToStoreFromDump")],
                            Uncaught("BadStorePathName"))]
        /\ UNCHANGED pureEval

(***************************************************************************)
(* The primops                                                             *)
(***************************************************************************)

\* The 'hash' attribute: absent, the empty string, or a printed hash.
HashAttrs ==
    {Nullopt, Some(<<>>)} \cup {Some(to_string_SRI(h)) : h \in OfferedHashes}

\* Mutant: the guard against the empty string is missing.
parseAgeAttrs_noEmptyGuard(hashAttr) ==
    IF HasValue(hashAttr)
    THEN newHashAllowEmpty(hashAttr[1], "SHA256")
    ELSE [ok |-> TRUE, hash |-> Nullopt]

\* parseAgeAttrs, the 'hash' attribute (lines 234-238): [ok, hash].
parseAgeAttrs(hashAttr) ==
    IF HasValue(hashAttr) /\ hashAttr[1] /= <<>>
    THEN newHashAllowEmpty(hashAttr[1], "SHA256")
    ELSE [ok |-> TRUE, hash |-> Nullopt]

\* Lines 254-255 / 269-270: parse the attributes, then enter resolveAge.
primEnter(who, file, hashAttr, prev) ==
    LET parsed == parseAgeAttrs(hashAttr) IN
    IF parsed.ok
    THEN resolveAgeEnter(who, file, parsed.hash, prev)
    ELSE Throw([IdleCall EXCEPT !.who = who, !.file = file, !.prev = prev],
               Uncaught("BadHash"))

prim_readAge(c, file, hashAttr) ==
    /\ calls[c].pc = "idle"
    /\ calls' = [calls EXCEPT ![c] =
          primEnter("builtins.readAge", file, hashAttr, Nullopt)]
    /\ UNCHANGED <<store, pureEval>>

prim_importAge(c, file, hashAttr) ==
    /\ calls[c].pc = "idle"
    /\ calls' = [calls EXCEPT ![c] =
          primEnter("builtins.importAge", file, hashAttr, Nullopt)]
    /\ UNCHANGED <<store, pureEval>>

\* The user pins the hash that the previous call printed: the same primop
\* on the same file, with 'hash' set to the text of the notice.
pinPrintedHash(c) ==
    LET call == calls[c] IN
    /\ call.pc \in {"returned", "done", "failed"}
    /\ HasValue(call.warned)
    /\ calls' = [calls EXCEPT ![c] =
          primEnter(call.who, call.file, Some(call.warned[1]), call.result)]
    /\ UNCHANGED <<store, pureEval>>

\* The bytes stored under a path.
ContentOf(path) ==
    CHOOSE content \in Contents : hashString(path.hash.algo, content) = path.hash

hasNul(content) == \E i \in 1..Len(content) : content[i] = 0

\* Mutant: the NUL check is missing.
readAgeFinish_noNulCheck(c) ==
    LET call == calls[c]
        content == ContentOf(call.result[1])
    IN  /\ call.pc = "returned"
        /\ call.who = "builtins.readAge"
        /\ calls' = [calls EXCEPT ![c] =
              [call EXCEPT !.pc = "done", !.value = Some(content)]]
        /\ UNCHANGED <<store, pureEval>>

\* Lines 271-280: read the stored file; a NUL byte is an error.
readAgeFinish(c) ==
    LET call == calls[c]
        content == ContentOf(call.result[1])
    IN  /\ call.pc = "returned"
        /\ call.who = "builtins.readAge"
        /\ calls' = [calls EXCEPT ![c] =
              IF hasNul(content)
              THEN Throw(call, [NoError EXCEPT !.kind = "NotANixString",
                                               !.who = call.who,
                                               !.file = call.file])
              ELSE [call EXCEPT !.pc = "done", !.value = Some(content)]]
        /\ UNCHANGED <<store, pureEval>>

\* Lines 256-264: evaluate the stored file; evalFile may throw.
importAgeFinish(c) ==
    LET call == calls[c] IN
    /\ call.pc = "returned"
    /\ call.who = "builtins.importAge"
    /\ \E ok \in BOOLEAN :
         calls' = [calls EXCEPT ![c] =
            IF ok THEN [call EXCEPT !.pc = "done"]
            ELSE Throw(call, Uncaught("EvalFileError"))]
    /\ UNCHANGED <<store, pureEval>>

(***************************************************************************)
(* The environment                                                         *)
(***************************************************************************)

\* The activation ends; the caller may call again.
Release(c) ==
    /\ calls[c].pc \in {"returned", "done", "failed"}
    /\ calls' = [calls EXCEPT ![c] = IdleCall]
    /\ UNCHANGED <<store, pureEval>>

\* The evaluator is started with another pure-eval setting.
SetPureEval ==
    /\ \A c \in Callers : calls[c].pc = "idle"
    /\ pureEval' = ~pureEval
    /\ UNCHANGED <<store, calls>>

\* The garbage collector deletes a path that no running call holds.
CollectGarbage(path) ==
    /\ path \in store
    /\ \A c \in Callers :
          calls[c].pc = "returned" => calls[c].result /= Some(path)
    /\ store' = store \ {path}
    /\ UNCHANGED <<pureEval, calls>>

(***************************************************************************)
(* Specification                                                           *)
(***************************************************************************)

Step(c) ==
    \/ \E who \in Whos, file \in Files, h \in ExpectedHashes :
          resolveAge(c, who, file, h)
    \/ \E file \in Files, a \in HashAttrs : prim_readAge(c, file, a)
    \/ \E file \in Files, a \in HashAttrs : prim_importAge(c, file, a)
    \/ pinPrintedHash(c)
    \/ ensurePath(c)
    \/ discoverIdentities(c)
    \/ checkSource(c)
    \/ decryptWithAge(c)
    \/ verifyHash(c)
    \/ addToStoreFromDump(c)
    \/ readAgeFinish(c)
    \/ importAgeFinish(c)
    \/ Release(c)

Environment ==
    \/ SetPureEval
    \/ \E path \in store : CollectGarbage(path)

\* One evaluator at a time.
Next == Step(1) \/ Environment

Spec == Init /\ [][Next]_vars

\* Two evaluators at a time, each making one readAge call on the same file,
\* unlocked or locked to the hash of its plaintext, in an environment in which every call that
\* gets to identity discovery finds an identity, finds the ciphertext and
\* decrypts it: the runs in which concurrent calls meet at the commit.
LockedOrNot(file) ==
    {Nullopt, Some(to_string_SRI(hashString("SHA256", Plaintext(file))))}

SameReference(c, file) ==
    \A d \in Callers \ {c} : Active(calls[d]) => calls[d].file = file

EnvironmentFailures ==
    {"SysError", "NoUsableIdentity", "SourceNotFound", "DecryptionFailed"}

Proceeds(c) == calls[c].err.kind \notin EnvironmentFailures

NextConcurrent ==
    \E c \in Callers :
        \/ \E file \in Files : \E a \in LockedOrNot(file) :
              SameReference(c, file) /\ prim_readAge(c, file, a)
        \/ ensurePath(c)
        \/ discoverIdentities(c) /\ Proceeds(c)'
        \/ checkSource(c) /\ Proceeds(c)'
        \/ decryptWithAge(c) /\ Proceeds(c)'
        \/ verifyHash(c)
        \/ addToStoreFromDump(c)
        \/ readAgeFinish(c)

SpecConcurrent == Init /\ [][NextConcurrent]_vars

\* One evaluator whose every primop call gives hash = "".
EmptyHash == Some(<<>>)

NextEmptyHash ==
    \/ \E file \in Files : prim_readAge(1, file, EmptyHash)
    \/ \E file \in Files : prim_importAge(1, file, EmptyHash)
    \/ discoverIdentities(1)
    \/ checkSource(1)
    \/ decryptWithAge(1)
    \/ verifyHash(1)
    \/ addToStoreFromDump(1)
    \/ readAgeFinish(1)
    \/ importAgeFinish(1)
    \/ Release(1)
    \/ Environment

SpecEmptyHash == Init /\ [][NextEmptyHash]_vars

\* One evaluator making one readAge call on a path out of a range of
\* shapes: the root, the same base name in two directories, base names
\* without suffix, with one and with two suffixes, the bare suffix, and
\* "age" without the dot.
NameFiles ==
    {<<>>,
     FilePlain,
     << <<"e">>, <<"s", ".", "a", "g", "e">> >>,
     FileNul,
     << <<"d">>, <<"s", ".", "a", "g", "e", ".", "a", "g", "e">> >>,
     << <<"d">>, <<".", "a", "g", "e">> >>,
     << <<"d">>, <<"a", "g", "e">> >>}

NextNames ==
    \/ SetPureEval
    \/ \E file \in NameFiles : \E a \in LockedOrNot(file) : prim_readAge(1, file, a)
    \/ ensurePath(1)
    \/ discoverIdentities(1)
    \/ checkSource(1)
    \/ decryptWithAge(1)
    \/ verifyHash(1)
    \/ addToStoreFromDump(1)
    \/ readAgeFinish(1)

SpecNames == Init /\ [][NextNames]_vars

(***************************************************************************)
(* Properties                                                              *)
(***************************************************************************)

\* The errors that a primop raises around resolveAge, not resolveAge itself.
CallerErrors == {"BadHash", "NotANixString", "EvalFileError"}

\* resolveAge was entered and has thrown.
ResolveFailed(call) ==
    call.pc = "failed" /\ call.err.kind \notin CallerErrors

\* resolveAge has returned a store path.
ResolveDone(call) == HasValue(call.result)

Count(call, op) == Cardinality({i \in 1..Len(call.log) : call.log[i] = op})

\* C1: cache-hit short-circuit.  Whenever ensurePath of the path derived from
\* (derivedName, expectedHash) succeeded, in pure or impure mode, resolveAge
\* has returned exactly that path and the only collaborator operation of the
\* call is that ensurePath: no identity discovery, no look at the
\* ciphertext, no Decryptor run, no commit, no notice.
C1_CacheHitShortCircuit ==
    \A c \in Callers :
        LET call == calls[c] IN
        call.cache \in {"hit", "substituted"} =>
            /\ HasValue(call.hash) /\ call.hash[1].algo = "SHA256"
            /\ call.pc \in {"returned", "done", "failed"}
            /\ call.pc = "failed" => call.err.kind \in CallerErrors
            /\ call.result =
                  Some(makeFixedOutputPath(derivedName(call.file), "Flat", call.hash[1]))
            /\ call.log = <<"ensurePath">>
            /\ call.candidates = <<>> /\ ~HasValue(call.args)
            /\ ~HasValue(call.content) /\ ~HasValue(call.warned)

\* C1 witness: a cache hit in pure mode, resolveAge returned.
C1_Witness ==
    /\ pureEval
    /\ calls[1].cache = "hit"
    /\ calls[1].pc = "returned"
    /\ calls[1].log = <<"ensurePath">>

\* C2: purity gate.  A resolveAge call without expected hash in pure mode
\* has failed with PurityViolation and has performed no collaborator
\* operation at all (no ensurePath, discovery, ciphertext access, Decryptor
\* run or commit).
C2_PurityGate ==
    \A c \in Callers :
        LET call == calls[c] IN
        (Active(call) /\ ~HasValue(call.hash) /\ pureEval /\ call.err.kind /= "BadHash") =>
            /\ call.pc = "failed"
            /\ call.err.kind = "PurityViolation"
            /\ call.err.who = call.who
            /\ call.log = <<>>
            /\ call.cache = "none" /\ call.candidates = <<>>
            /\ ~HasValue(call.args) /\ ~HasValue(call.result)

\* C2 witness: a call without hash in pure mode, failed with PurityViolation.
C2_Witness ==
    /\ pureEval
    /\ calls[1].pc = "failed"
    /\ ~HasValue(calls[1].hash)
    /\ calls[1].err.kind = "PurityViolation"

\* C3: commit strictly after verification.  addToStoreFromDump has run only
\* in a call whose single Decryptor run succeeded before it and, when an
\* expected hash was given, whose content hashes to exactly that hash; a
\* call that ended in HashMismatch ran the Decryptor once and committed
\* nothing; no call in which resolveAge threw has committed anything.
C3_CommitAfterVerification ==
    \A c \in Callers :
        LET call == calls[c] IN
        /\ Did(call, "addToStoreFromDump") =>
              /\ HasValue(call.content)
              /\ Count(call, "decryptWithAge") = 1
              /\ \E i, j \in 1..Len(call.log) :
                    /\ i < j
                    /\ call.log[i] = "decryptWithAge"
                    /\ call.log[j] = "addToStoreFromDump"
              /\ HasValue(call.hash) =>
                    hashString("SHA256", call.content[1]) = call.hash[1]
              /\ call.result = Some(addToStoreFromDumpPath(call.name, call.content[1]))
        /\ (HasValue(call.content) /\ HasValue(call.hash)
              /\ hashString("SHA256", call.content[1]) /= call.hash[1]
              /\ call.pc /= "verify") =>
              /\ call.pc = "failed"
              /\ call.err.kind = "HashMismatch"
              /\ Count(call, "decryptWithAge") = 1
              /\ ~Did(call, "addToStoreFromDump")
        /\ ResolveFailed(call) => ~Did(call, "addToStoreFromDump")

\* C3 witness: a call with an expected hash that decrypted, verified and
\* committed.
C3_Witness ==
    /\ HasValue(calls[1].hash)
    /\ Did(calls[1], "addToStoreFromDump")
    /\ calls[1].pc = "returned"

\* A call that pins the hash printed by the previous call is a hash-locked
\* call for the path that call returned.
PinnedIsLocked(call) ==
    HasValue(call.prev) =>
        /\ call.err.kind \notin {"BadHash", "UnsupportedHashAlgorithm", "PurityViolation"}
        /\ HasValue(call.hash)
        /\ call.expectedPath = call.prev

\* C4: round trip of the hash lock.  A resolve without hash succeeded,
\* printed the digest H and returned P; the same reference is resolved again
\* with 'hash' set to the printed text.  The text parses back to a SHA-256
\* hash whose expected path is P, and if P is in the store when ensurePath
\* runs, the call returns P with ensurePath as its only operation: no
\* identity discovery and no Decryptor run, whatever identities exist.
C4_RoundTrip ==
    [][ \A c \in Callers :
          LET a == calls[c]
              b == calls'[c]
          IN  /\ PinnedIsLocked(b)
              /\ (a.pc = "ensure" /\ HasValue(a.prev) /\ a.prev[1] \in store /\ b /= a) =>
                    /\ b.pc = "returned"
                    /\ b.result = a.prev
                    /\ b.log = <<"ensurePath">>
                    /\ ~HasValue(b.args)
      ]_vars

\* C4 witness: the pinned call has returned the previous path from the
\* cache.
C4_Witness ==
    /\ HasValue(calls[1].prev)
    /\ calls[1].cache = "hit"
    /\ calls[1].pc = "returned"
    /\ calls[1].result = calls[1].prev

\* The one path a reference can resolve to: the fixed-output path of its
\* derived name and its expected hash or, without one, the SHA-256 of the
\* plaintext of its ciphertext.
FinalPath(file, expectedHash) ==
    makeFixedOutputPath(derivedName(file), "Flat",
        IF HasValue(expectedHash) THEN expectedHash[1]
        ELSE hashString("SHA256", Plaintext(file)))

\* C5: determinism and idempotence.  Whatever the store holds and however
\* earlier calls ended, a call in which resolveAge returned has returned the
\* path that is a function of the reference and the plaintext alone; so two
\* calls on the same reference that reach Done return the same path.  A call
\* that committed with an expected hash returns the very path its cache
\* check had looked for.
C5_Determinism ==
    \A c \in Callers :
        LET call == calls[c] IN
        ResolveDone(call) =>
            /\ call.result = Some(FinalPath(call.file, call.hash))
            /\ call.result[1] \in store \/ call.pc /= "returned"
            /\ (Did(call, "addToStoreFromDump") /\ HasValue(call.hash)) =>
                  call.result = call.expectedPath

\* C5 witness: a call with an expected hash missed the cache, decrypted and
\* committed: the commit branch returned the path of the cache branch.
C5_Witness ==
    /\ calls[1].cache = "miss"
    /\ Did(calls[1], "addToStoreFromDump")
    /\ calls[1].result = calls[1].expectedPath
    /\ calls[1].pc = "returned"

\* C6: the purity gate is skipped when a hash is supplied.  No call with an
\* expected hash fails with PurityViolation; in pure mode a call whose cache
\* check missed goes on to identity discovery (no step of it is blocked),
\* and once its Decryptor run succeeded with content of the expected hash
\* it commits and returns.
C6_GateSkippedWithHash ==
    \A c \in Callers :
        LET call == calls[c] IN
        /\ HasValue(call.hash) => call.err.kind /= "PurityViolation"
        /\ (pureEval /\ call.cache = "miss") =>
              /\ call.pc = "discover" \/ Did(call, "discoverIdentities")
              /\ call.pc = "discover" => ENABLED discoverIdentities(c)
              /\ call.pc = "verify" => ENABLED verifyHash(c)
              /\ call.pc = "commit" => ENABLED addToStoreFromDump(c)
              /\ (HasValue(call.content)
                    /\ hashString("SHA256", call.content[1]) = call.hash[1]
                    /\ call.pc \notin {"verify", "commit"}) =>
                    /\ Did(call, "addToStoreFromDump")
                    /\ ResolveDone(call)
                    /\ call.err.kind \in {"none"} \cup CallerErrors

\* C6 witness: pure mode, hash supplied, cache missed, committed, returned.
C6_Witness ==
    /\ pureEval
    /\ HasValue(calls[1].hash)
    /\ calls[1].cache = "miss"
    /\ Did(calls[1], "addToStoreFromDump")
    /\ calls[1].pc = "returned"

DescribedStatuses == {"not found", "not readable", "found", "inaccessible"}

DefaultIdentities ==
    {HomeDir \o <<".ssh", "id_ed25519">>, HomeDir \o <<".ssh", "id_rsa">>}

\* C8: the override replaces the defaults.  Whenever AGE_IDENTITY_FILE is
\* set, the candidate list is exactly that path, it is the only path
\* probed, and no default location is a candidate, is described in a
\* message or is handed to the Decryptor; if the override path is not
\* accessible the usable list is empty.
C8_OverrideReplacesDefaults ==
    \A c \in Callers :
        LET call == calls[c] IN
        HasValue(call.env) =>
            /\ call.candidates = <<call.env[1]>>
            /\ Len(call.probed) = 1
            /\ call.usable = IF call.probed[1] = "ok" THEN <<call.env[1]>> ELSE <<>>
            /\ \A i \in 1..Len(call.err.detail) :
                  call.err.detail[i].path \notin DefaultIdentities
            /\ HasValue(call.args) => call.args[1].identities = <<call.env[1]>>

\* C8 witness: the override is set, its path does not exist, and discovery
\* ended with nothing usable.
C8_Witness ==
    /\ calls[1].env = Some(KeyFile)
    /\ calls[1].probed = <<"ENOENT">>
    /\ calls[1].usable = <<>>
    /\ calls[1].err.kind = "NoUsableIdentity"

\* C9: an unsupported hash algorithm fails fast.  A resolveAge call whose
\* expected hash is not SHA-256 has failed with UnsupportedHashAlgorithm,
\* in pure and in impure mode, before any collaborator operation.
C9_UnsupportedAlgorithmFailsFast ==
    \A c \in Callers :
        LET call == calls[c] IN
        (HasValue(call.hash) /\ call.hash[1].algo /= "SHA256") =>
            /\ call.pc = "failed"
            /\ call.err.kind = "UnsupportedHashAlgorithm"
            /\ call.err.who = call.who
            /\ call.log = <<>>
            /\ call.cache = "none" /\ ~HasValue(call.expectedPath)
            /\ call.candidates = <<>> /\ ~HasValue(call.args)
            /\ ~HasValue(call.result)

\* C9 witness: a SHA-512 expected hash in pure mode, failed at once.
C9_Witness ==
    /\ pureEval
    /\ HasValue(calls[1].hash)
    /\ calls[1].hash[1].algo = "SHA512"
    /\ calls[1].err.kind = "UnsupportedHashAlgorithm"

InSeq(x, seq) == \E i \in 1..Len(seq) : seq[i] = x

\* The Decryptor was run and did not deliver content.
DecryptorFailed(call) == Did(call, "decryptWithAge") /\ ~HasValue(call.content)

\* C10: any failure of the Decryptor run ends the call in DecryptionFailed,
\* whose message carries the text the tool printed, verbatim, and the
\* reference; no failure escapes as another error; no commit follows.
\* (Refuted: only ExecError is wrapped, and its text is the program and the
\* exit status, not what the tool printed.)
C10_DecryptorFailureWrapped ==
    \A c \in Callers :
        LET call == calls[c] IN
        DecryptorFailed(call) =>
            /\ call.pc = "failed"
            /\ call.err.kind = "DecryptionFailed"
            /\ call.err.file = call.file
            /\ InSeq(call.toolDiag, call.err.what)
            /\ ~Did(call, "addToStoreFromDump")

PastCommit(call) ==
    HasValue(call.content) /\ call.pc \notin {"verify", "commit"}

\* The valid store paths that hold content under name.
Artifacts(name, content) ==
    {p \in store : p.name = name /\ p.hash = hashString("SHA256", content)}

\* C12: concurrent convergence.  When two concurrent calls for the same
\* file both missed the cache or had no hash, both decrypted and both are
\* past their commit, then in every interleaving both have succeeded, both
\* returned the same path, and the store holds exactly one artifact for that
\* name and content; a call that is at its commit step is never blocked by the
\* commit of the other.
C12_ConcurrentConvergence ==
    \A c1 \in Callers : \A c2 \in Callers \ {c1} :
        LET a == calls[c1]
            b == calls[c2]
        IN  /\ (PastCommit(a) /\ PastCommit(b) /\ a.file = b.file) =>
                  /\ ResolveDone(a) /\ ResolveDone(b)
                  /\ ~ResolveFailed(a) /\ ~ResolveFailed(b)
                  /\ a.result = b.result
                  /\ a.result[1] \in store
                  /\ Cardinality(Artifacts(a.name, a.content[1])) = 1
            /\ a.pc = "commit" => ENABLED addToStoreFromDump(c1)

\* C12 witness: both callers decrypted the same file while the path was not
\* yet valid (both were at their commit step together) and both returned.
C12_Witness ==
    /\ calls[1].file = FilePlain /\ calls[2].file = FilePlain
    /\ calls[1].pc = "returned" /\ calls[2].pc = "returned"
    /\ Did(calls[1], "addToStoreFromDump") /\ Did(calls[2], "addToStoreFromDump")
    /\ calls[1].cache = "miss" /\ calls[2].cache = "none"

\* C13: HashMismatch diagnostics.  The message of a HashMismatch carries the
\* expected digest and the digest of the decrypted bytes, both in SRI form
\* (each text parses back to its hash, and the two differ); every part of
\* the message is the primop name, the file, or one of these two texts: the
\* free-text parts are empty, so the plaintext enters only through its digest.
C13_HashMismatchDiagnostics ==
    \A c \in Callers :
        LET call == calls[c]
            actual == hashString("SHA256", Plaintext(call.file))
        IN  call.err.kind = "HashMismatch" =>
              /\ HasValue(call.hash) /\ call.content = Some(Plaintext(call.file))
              /\ call.err.specified = to_string_SRI(call.hash[1])
              /\ call.err.got = to_string_SRI(actual)
              /\ call.err.specified /= call.err.got
              /\ newHashAllowEmpty(call.err.specified, "SHA256").hash = call.hash
              /\ newHashAllowEmpty(call.err.got, "SHA256").hash = Some(actual)
              /\ call.err = [NoError EXCEPT !.kind = "HashMismatch",
                                            !.who = call.who,
                                            !.file = call.file,
                                            !.specified = call.err.specified,
                                            !.got = call.err.got]
              /\ call.err.what = <<>> /\ call.err.detail = <<>>

\* C13 witness: a call locked to a hash that is not the hash of the
\* plaintext decrypted and failed the comparison.
C13_Witness ==
    /\ calls[1].err.kind = "HashMismatch"
    /\ calls[1].cache = "miss"
    /\ Did(calls[1], "decryptWithAge")
    /\ calls[1].err.got = to_string_SRI(hashString("SHA256", ContentPlain))

\* C14: NUL bytes are rejected only after Done.  The step in which readAge
\* raises its NUL error starts from a call in which resolveAge has returned
\* a path that is valid in the store and stays valid, the content of that
\* path has a NUL byte, and no value is returned; readAge never returns a
\* value with a NUL byte; and a readAge call that decrypted content with a
\* NUL byte and passed verification has committed exactly these bytes and
\* resolveAge has returned, whatever readAge does next.
C14_NulRejectedAfterDone ==
    [][\A c \in Callers :
         LET a == calls[c]
             b == calls'[c]
         IN  /\ (b.err.kind = "NotANixString" /\ a.err.kind /= "NotANixString") =>
                   /\ a.pc = "returned" /\ ResolveDone(a)
                   /\ b.who = "builtins.readAge"
                   /\ b.result = a.result /\ ~HasValue(b.value)
                   /\ a.result[1] \in store /\ a.result[1] \in store'
                   /\ hasNul(ContentOf(a.result[1]))
             /\ (b.who = "builtins.readAge" /\ b.pc = "done") =>
                   HasValue(b.value) /\ ~hasNul(b.value[1])
             /\ (b.who = "builtins.readAge" /\ HasValue(b.content)
                   /\ hasNul(b.content[1]) /\ b.pc \notin {"verify", "commit"}
                   /\ b.err.kind /= "HashMismatch") =>
                   /\ Did(b, "addToStoreFromDump")
                   /\ b.result = Some(addToStoreFromDumpPath(b.name, b.content[1]))
                   /\ ContentOf(b.result[1]) = b.content[1]
                   /\ b.pc \in {"returned", "failed"}
                   /\ b.pc = "failed" => b.err.kind = "NotANixString"
      ]_vars

\* C14 witness: readAge failed on the NUL byte of content that this very
\* call decrypted and committed, and the artifact is in the store.
C14_Witness ==
    /\ calls[1].err.kind = "NotANixString"
    /\ Did(calls[1], "addToStoreFromDump")
    /\ calls[1].content = Some(ContentNul)
    /\ calls[1].result[1] \in store

\* C15: a failed cache check is never fatal.  The step that ends the cache
\* check either returns the expected path, valid in the store, or, for
\* whatever reason the path could not be ensured (absent everywhere, or
\* offered by a substituter whose fetch failed), leaves the call without
\* error at identity discovery with nothing else changed; so a call that
\* missed has identity discovery as its next operation, and a call that made
\* a cache check and failed in resolveAge failed after that discovery.
C15_CacheFailureNotFatal ==
    [][\A c \in Callers :
         LET a == calls[c]
             b == calls'[c]
         IN  /\ (a.pc = "ensure" /\ b /= a) =>
                   \/ /\ b.pc = "returned" /\ b.err = NoError
                      /\ b.result = a.expectedPath /\ b.result[1] \in store'
                   \/ /\ b = [a EXCEPT !.pc = "discover", !.cache = "miss",
                                       !.log = Append(@, "ensurePath")]
                      /\ b.err = NoError
                      /\ store' = store
             /\ b.cache = "miss" =>
                   /\ b.log[1] = "ensurePath"
                   /\ b.pc = "discover" \/ (Len(b.log) >= 2 /\ b.log[2] = "discoverIdentities")
             /\ (ResolveFailed(b) /\ Did(b, "ensurePath")) =>
                   b.cache = "miss" /\ Did(b, "discoverIdentities")
      ]_vars

\* C15 witness: a substituter holds the path, fetching it failed, and the
\* call went on through identity discovery.
C15_Witness ==
    /\ calls[1].cache = "miss"
    /\ Substitutable(calls[1].expectedPath[1])
    /\ calls[1].pc = "exists"

\* The errors of resolveAge in the order of their checks.
Taxonomy ==
    <<"UnsupportedHashAlgorithm", "PurityViolation", "NoUsableIdentity",
      "SourceNotFound", "DecryptionFailed", "HashMismatch">>

Rank(kind) == CHOOSE i \in 1..Len(Taxonomy) : Taxonomy[i] = kind

\* The condition of the error of rank i holds for the call, as far as the
\* call got to evaluate it.
ConditionHolds(call, i) ==
    CASE i = 1 -> HasValue(call.hash) /\ call.hash[1].algo /= "SHA256"
      [] i = 2 -> ~HasValue(call.hash) /\ pureEval
      [] i = 3 -> Did(call, "discoverIdentities") /\ call.usable = <<>>
      [] i = 4 -> Did(call, "exists") /\ ~Did(call, "decryptWithAge")
      [] i = 5 -> Did(call, "decryptWithAge") /\ ~HasValue(call.content)
      [] i = 6 -> /\ HasValue(call.content) /\ HasValue(call.hash)
                  /\ hashString("SHA256", call.content[1]) /= call.hash[1]

\* The error of the call is the first of the taxonomy whose condition holds.
FirstInOrder(call) ==
    /\ ConditionHolds(call, Rank(call.err.kind))
    /\ \A i \in 1..(Rank(call.err.kind) - 1) : ~ConditionHolds(call, i)

\* C16: error precedence.  Every call in which resolveAge failed reports
\* one error of the taxonomy, and it is the first, in the order
\* UnsupportedHashAlgorithm, PurityViolation, NoUsableIdentity,
\* SourceNotFound, DecryptionFailed, HashMismatch, whose condition holds.
C16_ErrorPrecedence ==
    \A c \in Callers :
        LET call == calls[c] IN
        ResolveFailed(call) =>
            /\ InSeq(call.err.kind, Taxonomy)
            /\ FirstInOrder(call)

\* The call failed inside its last operation, op.
FailedIn(call, op) ==
    call.pc = "failed" /\ call.log /= <<>> /\ call.log[Len(call.log)] = op

\* C17: candidates and usable.  In a call that ran identity discovery
\* without override, the candidates are the two default locations,
\* id_ed25519 before id_rsa, or none when the home directory cannot be
\* determined; every candidate was probed, and usable is the candidates the
\* probe found accessible, in candidate order; and discovery itself never
\* fails: a call that failed right after discovery failed with the
\* NoUsableIdentity of resolveAge.
C17_CandidatesAndUsable ==
    \A c \in Callers :
        LET call == calls[c]
            ok == {i \in 1..Len(call.probed) : call.probed[i] = "ok"}
        IN  Did(call, "discoverIdentities") =>
              /\ ~HasValue(call.env) =>
                    call.candidates \in
                       {<<>>, <<HomeDir \o <<".ssh", "id_ed25519">>,
                                HomeDir \o <<".ssh", "id_rsa">>>>}
              /\ Len(call.probed) = Len(call.candidates)
              /\ Len(call.usable) = Cardinality(ok)
              /\ \A i \in ok :
                    call.usable[Cardinality({j \in ok : j <= i})] = call.candidates[i]
              /\ FailedIn(call, "discoverIdentities") =>
                    call.err.kind = "NoUsableIdentity" /\ call.candidates = <<>>

\* The position of the first op in the log of the call, 0 if it has none.
Position(call, op) ==
    IF Did(call, op)
    THEN CHOOSE i \in 1..Len(call.log) :
            call.log[i] = op /\ \A j \in 1..(i - 1) : call.log[j] /= op
    ELSE 0

\* C18: Decryptor invocation guard.  A call runs the Decryptor at most
\* once; when it ran, the cache check had missed or there was no expected
\* hash and no cache check, the look at the ciphertext came before the run
\* and after discovery, and the identities given are the usable list of
\* discovery, not empty, in discovery order, with the file of the call.  A
\* call that hit the cache never runs it, and a call that failed with
\* SourceNotFound failed in the look at the ciphertext without running it.
C18_DecryptorInvocationGuard ==
    \A c \in Callers :
        LET call == calls[c]
            ok == {i \in 1..Len(call.probed) : call.probed[i] = "ok"}
        IN  /\ Count(call, "decryptWithAge") <= 1
            /\ Did(call, "decryptWithAge") =>
                  /\ IF HasValue(call.hash)
                     THEN call.cache = "miss"
                     ELSE call.cache = "none" /\ ~Did(call, "ensurePath")
                  /\ Position(call, "discoverIdentities") > 0
                  /\ Position(call, "discoverIdentities") < Position(call, "exists")
                  /\ Position(call, "exists") < Position(call, "decryptWithAge")
                  /\ HasValue(call.args)
                  /\ call.args[1].file = call.file
                  /\ call.args[1].identities = call.usable
                  /\ call.usable /= <<>>
                  /\ Len(call.usable) = Cardinality(ok)
                  /\ \A i \in ok :
                        call.usable[Cardinality({j \in ok : j <= i})] = call.candidates[i]
            /\ ~Did(call, "decryptWithAge") =>
                  ~HasValue(call.args) /\ ~HasValue(call.content)
            /\ call.cache \in {"hit", "substituted"} => ~Did(call, "decryptWithAge")
            /\ call.err.kind = "SourceNotFound" =>
                  FailedIn(call, "exists") /\ ~Did(call, "decryptWithAge")

\* C18 witness: the second default identity alone was usable and the
\* Decryptor ran with exactly it, after a cache miss.
C18_Witness ==
    /\ Did(calls[1], "decryptWithAge")
    /\ calls[1].cache = "miss"
    /\ Len(calls[1].candidates) = 2
    /\ calls[1].args[1].identities = <<calls[1].candidates[2]>>

\* C19: the statuses of a NoUsableIdentity message agree with discovery.
\* In the message of a call that failed with NoUsableIdentity every listed
\* candidate is one that discovery found not accessible, and its status says
\* so: not found, not readable or inaccessible, never found.
C19_StatusesAgreeWithDiscovery ==
    \A c \in Callers :
        LET call == calls[c] IN
        call.err.kind = "NoUsableIdentity" =>
            \A i \in 1..Len(call.err.detail) :
                /\ call.probed[i] /= "ok"
                /\ call.err.detail[i].status \in
                      {"not found", "not readable", "inaccessible"}

\* C20: an empty hash string is an absent hash.  Under SpecEmptyHash, where
\* every call is made with hash = "": the call enters resolveAge exactly as
\* the same call without the attribute does; in pure mode it has failed with
\* PurityViolation before any operation; otherwise it makes no cache check
\* and no hash comparison can fail, and when resolveAge returned it has
\* decrypted, committed and emitted the notice with the computed hash.
C20_EmptyHashIsAbsent ==
    /\ \A who \in Whos, file \in Files :
          primEnter(who, file, EmptyHash, Nullopt) = primEnter(who, file, Nullopt, Nullopt)
    /\ \A c \in Callers :
          LET call == calls[c] IN
          Active(call) =>
             /\ ~HasValue(call.hash) /\ ~HasValue(call.expectedPath)
             /\ call.cache = "none" /\ ~Did(call, "ensurePath")
             /\ call.err.kind \notin {"BadHash", "UnsupportedHashAlgorithm", "HashMismatch"}
             /\ pureEval <=> (call.pc = "failed" /\ call.err.kind = "PurityViolation")
             /\ pureEval => call.log = <<>>
             /\ ResolveDone(call) =>
                   /\ Did(call, "decryptWithAge") /\ Did(call, "addToStoreFromDump")
                   /\ call.result = Some(addToStoreFromDumpPath(call.name, Plaintext(call.file)))
                   /\ call.warned = Some(to_string_SRI(hashString("SHA256", Plaintext(call.file))))

\* C20 witness: an importAge call with hash = "" in impure mode made no
\* cache check, decrypted, committed and printed the hash.
C20_Witness ==
    /\ ~pureEval
    /\ calls[1].who = "builtins.importAge"
    /\ calls[1].pc = "returned"
    /\ ~Did(calls[1], "ensurePath")
    /\ Did(calls[1], "decryptWithAge")
    /\ HasValue(calls[1].warned)

\* The base name ends in ".age".
HasAgeSuffix(b) == \E k \in 0..Len(b) : b = SubSeq(b, 1, k) \o DotAge

\* C21: derivedName.  In every call the name is "source" when the path has
\* no base name, the base name without its last ".age" when it ends in
\* ".age" (one suffix only), and the base name itself otherwise; the
\* expected path of the cache check and the path that the commit returned
\* both carry exactly this name; and every path with the same base name, in
\* whatever directory, has this name, in pure and impure mode and whatever
\* identities were found.
C21_DerivedName ==
    \A c \in Callers :
        LET call == calls[c]
            f == call.file
            n == call.name
        IN  Active(call) =>
              /\ IF f = <<>>
                 THEN n = <<"s", "o", "u", "r", "c", "e">>
                 ELSE IF HasAgeSuffix(f[Len(f)])
                      THEN n \o DotAge = f[Len(f)]
                      ELSE n = f[Len(f)]
              /\ HasValue(call.expectedPath) => call.expectedPath[1].name = n
              /\ HasValue(call.result) => call.result[1].name = n
              /\ (HasValue(call.hash) /\ Did(call, "addToStoreFromDump")
                    /\ HasValue(call.result)) => call.result = call.expectedPath
              /\ \A g \in NameFiles :
                    (g /= <<>> /\ f /= <<>> /\ g[Len(g)] = f[Len(f)]) =>
                        derivedName(g) = n

\* C21 witness: a locked call on a file with two ".age" suffixes missed the
\* cache, decrypted and committed under the name with one suffix left.
C21_Witness ==
    /\ calls[1].file = << <<"d">>, <<"s", ".", "a", "g", "e", ".", "a", "g", "e">> >>
    /\ calls[1].cache = "miss"
    /\ Did(calls[1], "addToStoreFromDump")
    /\ HasValue(calls[1].result)
    /\ calls[1].result[1].name = <<"s", ".", "a", "g", "e">>

====
